---- MODULE Spec2Model ----
(***************************************************************************)
(* Model of app/main.py: a Flask service with liveness/readiness probes,   *)
(* a version endpoint, a prime-counting endpoint and a graceful-shutdown   *)
(* signal handler.                                                         *)
(*                                                                         *)
(* Python values are modelled as records of one shape so that they can be  *)
(* compared: a string is a sequence of one-character strings, a float is   *)
(* an integer number of tenths, an exception is the name of its class.     *)
(***************************************************************************)
EXTENDS Integers, FiniteSets, Sequences, TLC

VARIABLES
    is_ready,              \* module global is_ready
    shutdown_in_progress,  \* module global shutdown_in_progress
    pc,                    \* position of the main thread in the __main__ block
    startup_left,          \* seconds left of time.sleep(2)
    handler_at,            \* position of the innermost graceful_shutdown frame
    handler_left,          \* seconds left of that frame's time.sleep(5)
    signals,               \* termination signals delivered so far
    elapsed,               \* seconds since the first signal (history, capped)
    exit_code,             \* exit status of the process: {} while it runs, {code} after
    inflight,              \* requests accepted and not yet answered
    last,                  \* the latest request answered, with its response
    environ,               \* process environment and installed Flask
    cp                     \* one activation of count_primes, statement by statement

vars == <<is_ready, shutdown_in_progress, pc, startup_left, handler_at,
          handler_left, signals, elapsed, exit_code, inflight, last, environ, cp>>

(***************************************************************************)
(* Bounds of the model and constants of the program.                       *)
(***************************************************************************)
MaxSignals == 2        \* signals delivered in one run
MaxInflight == 2       \* requests in flight at once
MaxStrLen == 2         \* length of a string given as n
MaxArg == 50           \* largest argument of the stepwise count_primes
MaxLatency == 1        \* measured latency, in 1/10000 s

STARTUP_DELAY == 2
SHUTDOWN_DELAY == 5
MAX_N == 100000
DEFAULT_PORT == 8080

(***************************************************************************)
(* count_primes                                                            *)
(***************************************************************************)
RECURSIVE FloorSqrt(_, _, _)
\* int(num ** 0.5): the float square root truncated, which for the numbers
\* the service admits is the largest r with r * r <= num (bisection).
FloorSqrt(num, lo, hi) ==
    IF lo >= hi THEN lo
    ELSE LET mid == (lo + hi + 1) \div 2
         IN  IF mid <= num \div mid
             THEN FloorSqrt(num, mid, hi)
             ELSE FloorSqrt(num, lo, mid - 1)

int_sqrt(num) == FloorSqrt(num, 0, num)

\* range(2, stop) with stop exclusive, missing the "+ 1"
trial_range_short(num) == 2 .. (int_sqrt(num) - 1)

\* range(2, int(num ** 0.5) + 1)
trial_range(num) == 2 .. ((int_sqrt(num) + 1) - 1)

\* the inner loop: is_prime stays True unless some i divides num
is_prime(num) == \A i \in trial_range(num) : num % i /= 0

\* the whole function, the outer loop as a count over range(2, n + 1)
count_primes_loop(n) ==
    IF n < 2 THEN 0
    ELSE Cardinality({num \in 2 .. n : is_prime(num)})

\* count_primes(MAX_N), evaluated once
PrimesAtMax == count_primes_loop(MAX_N)

count_primes(n) == IF n = MAX_N THEN PrimesAtMax ELSE count_primes_loop(n)

(***************************************************************************)
(* Python values.  A value is [kind, num, txt, keys]: kind names the type, *)
(* num holds a bool (0/1), an int or a float in tenths, txt the characters *)
(* of a str or the single-character strings of a list, keys the keys of a  *)
(* dict.  Val is the outcome of an expression: exc names the exception it  *)
(* raised, "none" when it returned val.                                    *)
(***************************************************************************)
PyVal(kind, num, txt, keys) == [kind |-> kind, num |-> num, txt |-> txt, keys |-> keys]

None == PyVal("None", 0, <<>>, {})
PyBool(b) == PyVal("bool", IF b THEN 1 ELSE 0, <<>>, {})
PyInt(i) == PyVal("int", i, <<>>, {})
PyFloat(tenths) == PyVal("float", tenths, <<>>, {})
PyNaN == PyVal("nan", 0, <<>>, {})
PyInf == PyVal("inf", 0, <<>>, {})
PyStr(chars) == PyVal("str", 0, chars, {})
PyList(items) == PyVal("list", 0, items, {})
PyDict(keys) == PyVal("dict", 0, <<>>, keys)

Returns(v) == [exc |-> "none", val |-> v]
Raises(e) == [exc |-> e, val |-> None]

Digits == <<"0", "1", "2", "3", "4", "5", "6", "7", "8", "9">>
IsDigit(c) == \E d \in 1 .. 10 : Digits[d] = c
DigitValue(c) == (CHOOSE d \in 1 .. 10 : Digits[d] = c) - 1
IsSpace(c) == c = " "

RECURSIVE LStrip(_)
LStrip(s) == IF s /= <<>> /\ IsSpace(Head(s)) THEN LStrip(Tail(s)) ELSE s

RECURSIVE RStrip(_)
RStrip(s) ==
    IF s /= <<>> /\ IsSpace(s[Len(s)]) THEN RStrip(SubSeq(s, 1, Len(s) - 1)) ELSE s

RECURSIVE DigitsValue(_, _)
\* the value of a run of decimal digits, underscores skipped
DigitsValue(s, acc) ==
    IF s = <<>> THEN acc
    ELSE IF Head(s) = "_" THEN DigitsValue(Tail(s), acc)
    ELSE DigitsValue(Tail(s), 10 * acc + DigitValue(Head(s)))

\* a decimal literal: digits, single underscores only between digits
IsDecimal(s) ==
    /\ s /= <<>>
    /\ \A k \in 1 .. Len(s) : IsDigit(s[k]) \/ s[k] = "_"
    /\ IsDigit(s[1]) /\ IsDigit(s[Len(s)])
    /\ \A k \in 1 .. Len(s) - 1 : ~(s[k] = "_" /\ s[k + 1] = "_")

\* int(str): surrounding whitespace, an optional sign, a decimal literal
int_of_str(chars) ==
    LET s == RStrip(LStrip(chars))
        signed == s /= <<>> /\ Head(s) \in {"+", "-"}
        body == IF signed THEN Tail(s) ELSE s
        mag == DigitsValue(body, 0)
    IN  IF ~IsDecimal(body) THEN Raises("ValueError")
        ELSE Returns(IF signed /\ Head(s) = "-" THEN 0 - mag ELSE mag)

\* truncation toward zero of a float held in tenths
Trunc(tenths) == IF tenths >= 0 THEN tenths \div 10 ELSE 0 - ((0 - tenths) \div 10)

\* int(x) for a Python value x; the result's val is a TLA+ integer
py_int(x) ==
    CASE x.kind = "int" -> Returns(x.num)
      [] x.kind = "bool" -> Returns(x.num)
      [] x.kind = "float" -> Returns(Trunc(x.num))
      [] x.kind = "nan" -> Raises("ValueError")
      [] x.kind = "inf" -> Raises("OverflowError")
      [] x.kind = "str" -> int_of_str(x.txt)
      [] OTHER -> Raises("TypeError")

\* bool(x)
Truthy(x) ==
    CASE x.kind = "None" -> FALSE
      [] x.kind \in {"bool", "int", "float"} -> x.num /= 0
      [] x.kind \in {"nan", "inf"} -> TRUE
      [] x.kind \in {"str", "list"} -> x.txt /= <<>>
      [] x.kind = "dict" -> x.keys /= {}

\* 'n' in x
ContainsN(x) ==
    CASE x.kind = "dict" -> Returns("n" \in x.keys)
      [] x.kind \in {"str", "list"} -> Returns(\E k \in 1 .. Len(x.txt) : x.txt[k] = "n")
      [] OTHER -> Raises("TypeError")

\* x['n'], item being the value stored under n when x is a dict
GetItemN(x, item) ==
    IF x.kind /= "dict" THEN Raises("TypeError")
    ELSE IF "n" \in x.keys THEN Returns(item)
    ELSE Raises("KeyError")

(***************************************************************************)
(* Requests and responses.  A request is [path, ctype_json, raw, doc, n]:  *)
(* ctype_json says whether the Content-Type is JSON, raw whether the body  *)
(* is "empty", "garbage" or "json", doc the decoded document and n the     *)
(* value it stores under "n" (None when it stores none).                   *)
(***************************************************************************)
Request(path, ctype_json, raw, doc, n) ==
    [path |-> path, ctype_json |-> ctype_json, raw |-> raw, doc |-> doc, n |-> n]

Get(path) == Request(path, FALSE, "empty", None, None)
PostJson(doc, n) == Request("/compute", TRUE, "json", doc, n)
PostN(n) == PostJson(PyDict({"n"}), n)

\* request.get_json(): without a JSON Content-Type Flask before 2.1 returns
\* None and later Flask raises UnsupportedMediaType; a JSON body that does
\* not parse raises BadRequest
get_json(req, silent_mimetype) ==
    IF ~req.ctype_json
    THEN IF silent_mimetype THEN Returns(None) ELSE Raises("UnsupportedMediaType")
    ELSE IF req.raw /= "json" THEN Raises("BadRequest")
    ELSE Returns(req.doc)

\* os.getenv(name, default) for a variable held as [set, val]
getenv(var, default) == IF var.set THEN var.val ELSE default

Response(status, key, text, n, primes_count, latency, computed, log) ==
    [status |-> status, key |-> key, text |-> text, n |-> n,
     primes_count |-> primes_count, latency |-> latency,
     computed |-> computed, log |-> log]

Status(status, text) == Response(status, "status", text, 0, 0, 0, FALSE, "none")
Error(status, text, log) == Response(status, "error", text, 0, 0, 0, FALSE, log)

\* health() answering without reading the flag
health_always_ok(shutdown) == Status(200, "healthy")

\* health()
health(shutdown) ==
    IF shutdown THEN Status(503, "shutting down") ELSE Status(200, "healthy")

\* ready() reading is_ready only
ready_ignores_shutdown(isready, shutdown) ==
    IF ~isready THEN Status(503, "not ready") ELSE Status(200, "ready")

\* ready()
ready(isready, shutdown) ==
    IF ~isready \/ shutdown THEN Status(503, "not ready") ELSE Status(200, "ready")

\* version()
version(env) ==
    Response(200, "version", getenv(env.APP_VERSION, "unknown"), 0, 0, 0, FALSE, "none")

\* the except clauses of compute()
compute_except(exc) ==
    IF exc = "ValueError" THEN Error(400, "invalid input", "none")
    ELSE Error(500, "internal server error", "error")

\* n < 0 or n > 100000, with the upper bound excluded by mistake
out_of_range_strict(n) == n < 0 \/ n >= MAX_N

\* n < 0 or n > 100000
out_of_range(n) == n < 0 \/ n > MAX_N

\* compute(); latency is what the two time.time() calls measured
compute(req, env, latency) ==
    LET data == get_json(req, env.silent_mimetype)
    IN  IF data.exc /= "none" THEN compute_except(data.exc)
        ELSE IF ~Truthy(data.val) THEN Error(400, "missing 'n' parameter", "none")
        ELSE LET has == ContainsN(data.val)
             IN  IF has.exc /= "none" THEN compute_except(has.exc)
                 ELSE IF ~has.val THEN Error(400, "missing 'n' parameter", "none")
                 ELSE LET item == GetItemN(data.val, req.n)
                      IN  IF item.exc /= "none" THEN compute_except(item.exc)
                          ELSE LET n == py_int(item.val)
                               IN  IF n.exc /= "none" THEN compute_except(n.exc)
                                   ELSE IF out_of_range(n.val)
                                   THEN Error(400, "n must be between 0 and 100000", "none")
                                   ELSE Response(200, "result", "", n.val,
                                                 count_primes(n.val), latency, TRUE, "info")

\* the routes behind a guard that turns every request away during shutdown
Dispatch_refusing(req, isready, shutdown, env, latency) ==
    IF shutdown THEN Status(503, "shutting down")
    ELSE CASE req.path = "/healthz" -> health(shutdown)
           [] req.path = "/readyz" -> ready(isready, shutdown)
           [] req.path = "/version" -> version(env)
           [] req.path = "/compute" -> compute(req, env, latency)

\* the routes: which view answers a request, given the globals it reads
Dispatch(req, isready, shutdown, env, latency) ==
    CASE req.path = "/healthz" -> health(shutdown)
      [] req.path = "/readyz" -> ready(isready, shutdown)
      [] req.path = "/version" -> version(env)
      [] req.path = "/compute" -> compute(req, env, latency)

(***************************************************************************)
(* Inputs.                                                                 *)
(***************************************************************************)
Unset == [set |-> FALSE, val |-> ""]
SetTo(v) == [set |-> TRUE, val |-> v]

\* APP_VERSION, PORT and whether the installed Flask's get_json() returns
\* None for a request without a JSON Content-Type
Environs ==
    [APP_VERSION : {Unset, SetTo("1.2.3")},
     PORT : {[set |-> FALSE, val |-> None],
             [set |-> TRUE, val |-> PyStr(<<"h", "t", "t", "p">>)]},
     silent_mimetype : BOOLEAN]

PortUsable(env) == py_int(getenv(env.PORT, PyInt(DEFAULT_PORT))).exc = "none"

Alphabet == {"0", "1", "-", " ", "n", "_"}
Strings == UNION {[1 .. k -> Alphabet] : k \in 0 .. MaxStrLen}
Ints == {-1, 0, 1, 2, 10, MAX_N, MAX_N + 1}
Tenths == {-5, 0, 25, 10 * MAX_N + 5, 10 * MAX_N + 10}

\* values stored under "n"
NValues ==
    {None, PyBool(TRUE), PyBool(FALSE), PyNaN, PyInf, PyList(<<>>), PyDict({})}
    \cup {PyInt(i) : i \in Ints}
    \cup {PyFloat(t) : t \in Tenths}
    \cup {PyStr(s) : s \in Strings}

\* JSON documents that are not an object with a field n
OtherDocs ==
    {None, PyBool(TRUE), PyBool(FALSE), PyInt(0), PyInt(5), PyFloat(0), PyFloat(25),
     PyList(<<>>), PyList(<<"m">>), PyList(<<"n">>), PyDict({}), PyDict({"m"})}
    \cup {PyStr(s) : s \in Strings}

ComputeRequests ==
    {PostN(v) : v \in NValues}
    \cup {PostJson(d, None) : d \in OtherDocs}
    \cup {PostJson(PyDict({"n", "m"}), PyInt(10)),
          Request("/compute", FALSE, "empty", None, None),
          Request("/compute", FALSE, "json", PyDict({"n"}), PyInt(10)),
          Request("/compute", TRUE, "empty", None, None),
          Request("/compute", TRUE, "garbage", None, None)}

\* the requests of the service's life-cycle specification
MainRequests ==
    {Get("/healthz"), Get("/readyz"), Get("/version"),
     PostN(PyInt(10)), PostJson(PyDict({}), None)}

NoAnswer ==
    [req |-> Get("none"), out |-> Status(0, "none"),
     ready_before |-> FALSE, shut_before |-> FALSE,
     ready_after |-> FALSE, shut_after |-> FALSE, draining |-> FALSE]

CpIdle == [at |-> "idle", n |-> 0, num |-> 0, count |-> 0]

Min(a, b) == IF a < b THEN a ELSE b

(***************************************************************************)
(* The process: module import and the __main__ block up to time.sleep(2).  *)
(***************************************************************************)
\* the module globals as the import leaves them
Globals == [is_ready |-> TRUE, shutdown_in_progress |-> FALSE]

Init ==
    /\ is_ready = Globals.is_ready
    /\ shutdown_in_progress = Globals.shutdown_in_progress
    /\ pc = "startup_sleep"
    /\ startup_left = STARTUP_DELAY
    /\ handler_at = "idle"
    /\ handler_left = 0
    /\ signals = 0
    /\ elapsed = 0
    /\ exit_code = {}
    /\ inflight = {}
    /\ last = NoAnswer
    /\ environ \in Environs
    /\ cp = CpIdle

\* one second passes for whichever time.sleep() the main thread is in
Tick ==
    /\ pc /= "exited"
    /\ \/ handler_at = "sleeping" /\ handler_left > 0
       \/ handler_at = "idle" /\ pc = "startup_sleep" /\ startup_left > 0
    /\ handler_left' = IF handler_at = "sleeping" THEN handler_left - 1 ELSE handler_left
    /\ startup_left' = IF handler_at = "idle" THEN startup_left - 1 ELSE startup_left
    /\ elapsed' = IF signals > 0 THEN Min(elapsed + 1, SHUTDOWN_DELAY) ELSE elapsed
    /\ UNCHANGED <<is_ready, shutdown_in_progress, pc, handler_at, signals,
                   exit_code, inflight, last, environ, cp>>

\* is_ready = True after the startup sleep
StartupDone ==
    /\ pc = "startup_sleep" /\ handler_at = "idle" /\ startup_left = 0
    /\ is_ready' = TRUE
    /\ pc' = "start_server"
    /\ UNCHANGED <<shutdown_in_progress, startup_left, handler_at, handler_left,
                   signals, elapsed, exit_code, inflight, last, environ, cp>>

\* port = int(os.getenv('PORT', 8080)); app.run(...): an unusable PORT is an
\* uncaught ValueError, which ends the process with status 1
StartServer ==
    /\ pc = "start_server" /\ handler_at = "idle"
    /\ IF PortUsable(environ)
       THEN pc' = "serving" /\ exit_code' = exit_code
       ELSE pc' = "exited" /\ exit_code' = {1}
    /\ UNCHANGED <<is_ready, shutdown_in_progress, startup_left, handler_at,
                   handler_left, signals, elapsed, inflight, last, environ, cp>>

\* the server's accept loop runs on the main thread: it takes a connection
\* and hands it to a worker thread, unless a signal handler holds the thread
Accept(req) ==
    /\ pc = "serving" /\ handler_at = "idle"
    /\ Cardinality(inflight) < MaxInflight
    /\ req \notin inflight
    /\ inflight' = inflight \cup {req}
    /\ UNCHANGED <<is_ready, shutdown_in_progress, pc, startup_left, handler_at,
                   handler_left, signals, elapsed, exit_code, last, environ, cp>>

\* a worker thread runs the view of an accepted request and answers it
HandleRequest(req) ==
    /\ pc /= "exited"
    /\ req \in inflight
    /\ inflight' = inflight \ {req}
    /\ UNCHANGED <<is_ready, shutdown_in_progress>>
    /\ \E latency \in 0 .. MaxLatency :
          last' = [req |-> req,
                   out |-> Dispatch(req, is_ready, shutdown_in_progress, environ, latency),
                   ready_before |-> is_ready, shut_before |-> shutdown_in_progress,
                   ready_after |-> is_ready', shut_after |-> shutdown_in_progress',
                   draining |-> handler_at = "sleeping"]
    /\ UNCHANGED <<pc, startup_left, handler_at, handler_left, signals, elapsed,
                   exit_code, environ, cp>>

\* SIGINT or SIGTERM is delivered: Python calls graceful_shutdown on the main
\* thread, on top of whatever that thread was doing (an earlier call included)
Signal(signum) ==
    /\ pc /= "exited"
    /\ signals < MaxSignals
    /\ signals' = signals + 1
    /\ handler_at' = "entered"
    /\ handler_left' = 0
    /\ UNCHANGED <<is_ready, shutdown_in_progress, pc, startup_left, elapsed,
                   exit_code, inflight, last, environ, cp>>

\* graceful_shutdown with the flag never set
HandlerForgetsFlag ==
    /\ handler_at = "entered" /\ pc /= "exited"
    /\ handler_at' = "flagged"
    /\ UNCHANGED <<is_ready, shutdown_in_progress, pc, startup_left, handler_left,
                   signals, elapsed, exit_code, inflight, last, environ, cp>>

\* graceful_shutdown: logger.info(...); shutdown_in_progress = True
HandlerSetFlag ==
    /\ handler_at = "entered" /\ pc /= "exited"
    /\ shutdown_in_progress' = TRUE
    /\ handler_at' = "flagged"
    /\ UNCHANGED <<is_ready, pc, startup_left, handler_left, signals, elapsed,
                   exit_code, inflight, last, environ, cp>>

\* graceful_shutdown: time.sleep(5) begins
HandlerSleep ==
    /\ handler_at = "flagged" /\ pc /= "exited"
    /\ handler_at' = "sleeping"
    /\ handler_left' = SHUTDOWN_DELAY
    /\ UNCHANGED <<is_ready, shutdown_in_progress, pc, startup_left, signals,
                   elapsed, exit_code, inflight, last, environ, cp>>

\* graceful_shutdown leaving without having slept
HandlerExitsEarly ==
    /\ handler_at = "sleeping" /\ pc /= "exited"
    /\ pc' = "exited"
    /\ exit_code' = {0}
    /\ UNCHANGED <<is_ready, shutdown_in_progress, startup_left, handler_at,
                   handler_left, signals, elapsed, inflight, last, environ, cp>>

\* graceful_shutdown: the sleep is over; logger.info(...); sys.exit(0).
\* SystemExit unwinds every frame of the main thread and the process ends.
HandlerExit ==
    /\ handler_at = "sleeping" /\ handler_left = 0 /\ pc /= "exited"
    /\ pc' = "exited"
    /\ exit_code' = {0}
    /\ UNCHANGED <<is_ready, shutdown_in_progress, startup_left, handler_at,
                   handler_left, signals, elapsed, inflight, last, environ, cp>>

Next ==
    \/ Tick
    \/ StartupDone
    \/ StartServer
    \/ \E req \in MainRequests : Accept(req)
    \/ \E req \in inflight : HandleRequest(req)
    \/ \E signum \in {"SIGINT", "SIGTERM"} : Signal(signum)
    \/ HandlerSetFlag
    \/ HandlerSleep
    \/ HandlerExit

Spec == Init /\ [][Next]_vars

\* time passes and the main thread runs
LiveSpec ==
    /\ Init /\ [][Next]_vars
    /\ WF_vars(Tick) /\ WF_vars(HandlerSetFlag) /\ WF_vars(HandlerSleep)
    /\ WF_vars(HandlerExit)

(***************************************************************************)
(* compute() applied to one request of each shape, in a serving process.   *)
(***************************************************************************)
ComputeInit ==
    /\ is_ready = TRUE
    /\ shutdown_in_progress = FALSE
    /\ pc = "serving"
    /\ startup_left = 0
    /\ handler_at = "idle"
    /\ handler_left = 0
    /\ signals = 0
    /\ elapsed = 0
    /\ exit_code = {}
    /\ inflight \in {{r} : r \in ComputeRequests}
    /\ last = NoAnswer
    /\ environ \in {e \in Environs : PortUsable(e)}
    /\ cp = CpIdle

ComputeNext == \E req \in inflight : HandleRequest(req)

ComputeSpec == ComputeInit /\ [][ComputeNext]_vars

(***************************************************************************)
(* count_primes(n), one statement at a time.                               *)
(***************************************************************************)
PrimeInit ==
    /\ is_ready = TRUE
    /\ shutdown_in_progress = FALSE
    /\ pc = "serving"
    /\ startup_left = 0
    /\ handler_at = "idle"
    /\ handler_left = 0
    /\ signals = 0
    /\ elapsed = 0
    /\ exit_code = {}
    /\ inflight = {}
    /\ last = NoAnswer
    /\ environ = [APP_VERSION |-> Unset, PORT |-> [set |-> FALSE, val |-> None],
                  silent_mimetype |-> FALSE]
    /\ cp \in {[at |-> "call", n |-> a, num |-> 0, count |-> 0] : a \in 0 .. MaxArg}

Others == <<is_ready, shutdown_in_progress, pc, startup_left, handler_at,
            handler_left, signals, elapsed, exit_code, inflight, last, environ>>

\* if n < 2: return 0;  count = 0 and the first num of range(2, n + 1)
CpEnter ==
    /\ cp.at = "call"
    /\ cp' = IF cp.n < 2
             THEN [cp EXCEPT !.at = "done", !.count = 0]
             ELSE [cp EXCEPT !.at = "loop", !.count = 0, !.num = 2]
    /\ UNCHANGED Others

\* one pass of the outer loop: the inner loop decides is_prime, then count
CpIterate ==
    /\ cp.at = "loop" /\ cp.num <= cp.n
    /\ cp' = [cp EXCEPT !.count = IF is_prime(cp.num) THEN cp.count + 1 ELSE cp.count,
                        !.num = cp.num + 1]
    /\ UNCHANGED Others

\* range(2, n + 1) is exhausted: return count
CpReturn ==
    /\ cp.at = "loop" /\ cp.num > cp.n
    /\ cp' = [cp EXCEPT !.at = "done"]
    /\ UNCHANGED Others

PrimeNext == CpEnter \/ CpIterate \/ CpReturn

PrimeSpec == PrimeInit /\ [][PrimeNext]_vars /\ WF_vars(PrimeNext)

(***************************************************************************)
(* Properties.                                                             *)
(***************************************************************************)
Probes == {"/healthz", "/readyz"}
FlagsKept == last.ready_after = last.ready_before /\ last.shut_after = last.shut_before

\* C1: GET /healthz answers 503 "shutting down" exactly when
\* shutdown_in_progress is true as it is handled and 200 "healthy" otherwise,
\* whatever is_ready is, and leaves both flags as they were.
C1_HealthFollowsShutdown ==
    last.req.path = "/healthz" =>
        /\ last.out = IF last.shut_before
                      THEN Status(503, "shutting down")
                      ELSE Status(200, "healthy")
        /\ \A r \in BOOLEAN :
              Dispatch(last.req, r, last.shut_before, environ, 0) = last.out
        /\ FlagsKept

C1_Witness ==
    last.req.path = "/healthz" /\ last.shut_before /\ last.out.status = 503

\* C2: GET /readyz answers 200 "ready" exactly when is_ready is true and
\* shutdown_in_progress is false as it is handled, 503 "not ready" in the
\* three other combinations of the flags, and leaves both flags as they were.
C2_ReadyNeedsBothFlags ==
    /\ \A r, s \in BOOLEAN :
          Dispatch(Get("/readyz"), r, s, environ, 0) =
              IF r /\ ~s THEN Status(200, "ready") ELSE Status(503, "not ready")
    /\ last.req.path = "/readyz" =>
          /\ last.out = IF last.ready_before /\ ~last.shut_before
                        THEN Status(200, "ready")
                        ELSE Status(503, "not ready")
          /\ FlagsKept

C2_Witness ==
    /\ last.req.path = "/readyz" /\ last.out.status = 503
    /\ last.ready_before /\ last.shut_before

\* C3: the signal handler has set shutdown_in_progress before its delay
\* starts; a probe handled once the flag is set answers 503; the flag is
\* never reset, further signals included.
C3_ShutdownSticks ==
    /\ [](/\ handler_at \in {"flagged", "sleeping"} => shutdown_in_progress
          /\ (last.req.path \in Probes /\ last.shut_before) => last.out.status = 503
          /\ (last.req.path \in Probes /\ last.out.status = 200) => ~last.shut_before)
    /\ [][shutdown_in_progress => shutdown_in_progress']_vars

C3_Witness ==
    /\ signals > 1 /\ handler_at = "sleeping" /\ shutdown_in_progress
    /\ last.req.path = "/readyz" /\ last.draining /\ last.out.status = 503

\* C4: once a termination signal has been delivered the process ends, with
\* exit status 0, and not before the flag was set and the shutdown delay
\* has passed, wherever the main thread was when the signal came.
C4_SignalEndsProcess ==
    /\ []((pc = "exited" /\ signals > 0) =>
             /\ exit_code = {0}
             /\ shutdown_in_progress
             /\ elapsed >= SHUTDOWN_DELAY)
    /\ (signals > 0) ~> (pc = "exited" /\ exit_code = {0})

C4_Witness ==
    /\ pc = "exited" /\ exit_code = {0} /\ signals > 1
    /\ inflight /= {} /\ elapsed >= SHUTDOWN_DELAY

\* the body is a JSON document that is an object with a field n
HasFieldN(req) == req.raw = "json" /\ req.doc.kind = "dict" /\ "n" \in req.doc.keys

\* C5: a POST /compute whose body is missing, does not parse as JSON or is
\* JSON without a field n is answered 400 "missing 'n' parameter".
C5_MissingNIs400 ==
    (last.req.path = "/compute" /\ ~HasFieldN(last.req)) =>
        last.out = Error(400, "missing 'n' parameter", "none")

\* C6: a POST /compute whose field n does not convert to an integer is
\* answered 400 "invalid input", never 500, without an error log line and
\* without a change of the flags.
C6_UnconvertibleIs400 ==
    (/\ last.req.path = "/compute" /\ last.req.ctype_json /\ HasFieldN(last.req)
     /\ py_int(last.req.n).exc /= "none") =>
        /\ last.out = Error(400, "invalid input", "none")
        /\ FlagsKept

\* the decoded body has a field n and int() accepts its value
Converts(req) ==
    req.path = "/compute" /\ req.ctype_json /\ HasFieldN(req) /\ py_int(req.n).exc = "none"

\* C7: when n converts to an integer k the answer depends on k alone: 400
\* "n must be between 0 and 100000" without a computation when k < 0 or
\* k > 100000, else 200 with n = k and primes_count = count_primes(k).
C7_RangeThenCount ==
    Converts(last.req) =>
        LET k == py_int(last.req.n).val
        IN  IF k < 0 \/ k > 100000
            THEN last.out = Error(400, "n must be between 0 and 100000", "none")
            ELSE /\ last.out.status = 200 /\ last.out.computed
                 /\ last.out.n = k
                 /\ last.out.primes_count = count_primes(k)
                 /\ k = 10 => last.out.primes_count = 4

C7_Witness ==
    /\ Converts(last.req) /\ last.out.status = 200
    /\ last.out.n = MAX_N /\ last.out.primes_count = 9592

\* the primes up to n, by the definition of a prime
PrimesUpTo(n) == {p \in 2 .. n : \A d \in 2 .. p - 1 : p % d /= 0}

\* C8: count_primes(n) ends and returns the number of primes p with
\* 2 <= p <= n; it returns 0 for 0 and 1, 1 for 2, 4 for 10, and does not
\* count the squares of primes.
C8_CountsPrimes ==
    /\ [](/\ cp.at = "done" =>
               /\ cp.count = Cardinality(PrimesUpTo(cp.n))
               /\ cp.count = count_primes(cp.n)
               /\ cp.n \in {0, 1} => cp.count = 0
               /\ cp.n = 2 => cp.count = 1
               /\ cp.n = 10 => cp.count = 4
          /\ cp.at = "loop" => cp.count = Cardinality(PrimesUpTo(cp.num - 1)))
    /\ <>(cp.at = "done")

C8_Witness == cp.at = "done" /\ cp.n = 49 /\ cp.count = 15

\* C9: is_ready is false until the startup sequence sets it, so /readyz
\* evaluated before the startup delay is over answers 503, and after it,
\* without a shutdown, 200.
C9_NotReadyBeforeStartup ==
    /\ pc = "startup_sleep" =>
          /\ ~is_ready
          /\ ready(is_ready, shutdown_in_progress).status = 503
    /\ (pc = "serving" /\ ~shutdown_in_progress) =>
          ready(is_ready, shutdown_in_progress).status = 200

\* C10: /compute and /version answer as they would with no shutdown in
\* progress, also for a request accepted before the signal and handled during
\* the shutdown delay; no request handler writes a flag, and
\* shutdown_in_progress changes only in the signal handler.
C10_ShutdownTouchesProbesOnly ==
    /\ [](/\ last.req.path \in {"/compute", "/version"} =>
               last.out = Dispatch(last.req, last.ready_before, FALSE, environ,
                                   last.out.latency)
          /\ last.req.path /= "none" => FlagsKept)
    /\ [][shutdown_in_progress' /= shutdown_in_progress =>
             /\ handler_at = "entered" /\ handler_at' = "flagged"
             /\ inflight' = inflight /\ last' = last]_vars

C10_Witness ==
    /\ last.req.path = "/compute" /\ last.draining /\ last.shut_before
    /\ last.out.status = 200 /\ last.out.primes_count = 4

====
